---------------------------- MODULE Spec2Model ----------------------------
(***************************************************************************)
(* Model of the matching, scanning, ranking and bencode-decoding core of   *)
(* imdb_movie_buddy (torrent_utils.py, search_iptorrents.py,               *)
(* torrent_sizes.py) and of the batch loops of download_all.py and         *)
(* upload_rutorrent.py.                                                    *)
(*                                                                         *)
(* Python strings and byte buffers are sequences of one-character strings. *)
(* Each pure function of the source is an operator computed the way the    *)
(* source computes it; each specification draws the inputs of one function *)
(* in its initial states and applies the function in its actions.          *)
(***************************************************************************)
EXTENDS Integers, Sequences, FiniteSets, TLC

VARIABLES
    pc,             \* position of the modelled call
    movie_name,     \* the catalogue title (title_matches, rank_results,
                    \* find_matching_torrent)
    year,           \* the catalogue year, already an integer (int(year), line 20)
    torrent_name,   \* title_matches: the release name
    fuzzy_year,     \* title_matches: the fuzzy_year argument
    ret,            \* title_matches: the value returned
    results,        \* rank_results: the list of search results
    best,           \* rank_results: the position in results of the entry
                    \* returned, 0 for None
    isdir,          \* find_matching_torrent: os.path.isdir(torrents_dir)
    listing,        \* find_matching_torrent: os.listdir(torrents_dir)
    torrent_files,  \* find_matching_torrent: the names ending in .torrent
    fuzzy,          \* find_matching_torrent: the position of the outer loop
                    \* in its tuple of modes
    tf,             \* find_matching_torrent: the position of the inner loop
                    \* in torrent_files
    found,          \* find_matching_torrent: the position in torrent_files
                    \* of the name returned, 0 for None
    data,           \* bdecode: the byte buffer
    decoded,        \* bdecode: the outcome of bdecode(data): the exception
                    \* raised ("none" for a return), the value and the
                    \* next offset returned
    stack,          \* bdecode, step by step: the calls of bdecode that are
                    \* inside their list or dictionary loop, outermost first
    idx,            \* bdecode, step by step: the offset the innermost call
                    \* reads at
    size,           \* torrent_size: the value returned
    text,           \* _normalize: the argument s
    normalized,     \* _normalize: the value returned
    year_arg,       \* a call with the year as its caller passes it: the text
                    \* of the year argument
    raised,         \* a call with the year as text: the exception the call
                    \* ended with, "none" for a return
    movies,         \* download_all: the rows of the CSV, each reduced to what
                    \* happens to the movie ("have", or the way its search ends)
    pos,            \* download_all: the position of the loop in movies
    skipped,        \* download_all: the counter of movies already on disk
    downloaded,     \* download_all: the counter of movies downloaded
    not_found,      \* download_all: the list of movies not found (positions)
    tracker,        \* upload_rutorrent: the lines of the .uploaded file
    uploaded,       \* upload_rutorrent: the in-memory set of uploaded names
    upload_files,   \* upload_rutorrent: the list of paths to upload (files)
    fp,             \* upload_rutorrent: the position of the loop in the list
    sent,           \* upload_rutorrent: the calls of upload_torrent made, each
                    \* with the file name and the value returned
    uploaded_count, \* upload_rutorrent: the three counters of the loop
    skipped_count,
    failed_count

titleVars == <<movie_name, year>>
matchVars == <<torrent_name, fuzzy_year, ret>>
rankVars == <<results, best>>
findVars == <<isdir, listing, torrent_files, fuzzy, tf, found>>
decodeVars == <<data, decoded, stack, idx, size>>
normVars == <<text, normalized>>
callVars == <<year_arg, raised>>
batchVars == <<movies, pos, skipped, downloaded, not_found>>
uploadVars ==
    <<tracker, uploaded, upload_files, fp, sent, uploaded_count, skipped_count, failed_count>>
scriptVars == <<callVars, batchVars, uploadVars>>
vars == <<pc, titleVars, normVars, matchVars, rankVars, findVars, decodeVars, scriptVars>>

\* the values of the variables a specification does not use
IdleNorm == text = <<>> /\ normalized = <<>>
IdleMatch == torrent_name = <<>> /\ fuzzy_year = FALSE /\ ret = FALSE
IdleRank == results = <<>> /\ best = 0
IdleFind ==
    /\ isdir = FALSE /\ listing = <<>> /\ torrent_files = <<>>
    /\ fuzzy = 1 /\ tf = 1 /\ found = 0
IdleSteps == stack = <<>> /\ idx = 0
IdleSize == size = [t |-> "pending"]
IdleDecode == data = <<>> /\ decoded = [exc |-> "pending"] /\ IdleSteps /\ IdleSize
IdleCall == year_arg = <<>> /\ raised = "none"
IdleBatch ==
    movies = <<>> /\ pos = 1 /\ skipped = 0 /\ downloaded = 0 /\ not_found = <<>>
IdleUpload ==
    /\ tracker = <<>> /\ uploaded = {} /\ upload_files = <<>> /\ fp = 1 /\ sent = <<>>
    /\ uploaded_count = 0 /\ skipped_count = 0 /\ failed_count = 0
IdleScripts == IdleCall /\ IdleBatch /\ IdleUpload

-----------------------------------------------------------------------------
(* Bounds of the model *)

\* longest release name drawn character by character
MaxNameLen == 4

\* longest list of search results
MaxResults == 2

\* most names in a directory listing
MaxFiles == 3

\* longest byte buffer drawn byte by byte
MaxDataLen == 5

\* longest argument of _normalize drawn character by character
MaxTextLen == 3

\* most rows in the CSV of download_all
MaxMovies == 3

\* most paths in the file list of upload_rutorrent
MaxUploads == 3

\* most lines in the .uploaded file at the start of a run
MaxLines == 1

-----------------------------------------------------------------------------
(* Characters and strings *)

Uppers == <<"A", "B", "C", "D", "E", "F", "G", "H", "I", "J", "K", "L", "M",
            "N", "O", "P", "Q", "R", "S", "T", "U", "V", "W", "X", "Y", "Z">>
Lowers == <<"a", "b", "c", "d", "e", "f", "g", "h", "i", "j", "k", "l", "m",
            "n", "o", "p", "q", "r", "s", "t", "u", "v", "w", "x", "y", "z">>
Digits == <<"0", "1", "2", "3", "4", "5", "6", "7", "8", "9">>

Range(s) == {s[i] : i \in DOMAIN s}

UpperSet == Range(Uppers)
LowerSet == Range(Lowers)
DigitSet == Range(Digits)

\* the character U+2019 (right single quotation mark), written in ASCII
RightQuote == "U+2019"

\* the character U+0131 (Latin small letter dotless i), written in ASCII: a
\* lower-case letter whose upper case is the ASCII letter I
DotlessI == "U+0131"

\* str.lower() on one character
LowerMap == [c \in UpperSet |-> Lowers[CHOOSE i \in DOMAIN Uppers : Uppers[i] = c]]
UpperMap == [c \in LowerSet |-> Uppers[CHOOSE i \in DOMAIN Lowers : Lowers[i] = c]]
LowerChar(c) == IF c \in UpperSet THEN LowerMap[c] ELSE c
UpperChar(c) == IF c \in LowerSet THEN UpperMap[c] ELSE IF c = DotlessI THEN "I" ELSE c

\* the regular expression classes \w and \s
IsWord(c) == c \in LowerSet \cup UpperSet \cup DigitSet \cup {"_", DotlessI}
IsSpace(c) == c \in {" ", "\t", "\n"}

RECURSIVE Flatten(_)
Flatten(ss) == IF ss = <<>> THEN <<>> ELSE Head(ss) \o Flatten(Tail(ss))

\* s left in the case it has
lower_keep(s) == s

\* s.lower()
lower(s) == [i \in DOMAIN s |-> LowerChar(s[i])]

\* s.replace(c, r) for a one-character c
replace(s, c, r) == Flatten([i \in DOMAIN s |-> IF s[i] = c THEN r ELSE <<s[i]>>])

\* s.startswith(p)
startswith(s, p) == Len(p) <= Len(s) /\ SubSeq(s, 1, Len(p)) = p

\* s.endswith(p)
endswith(s, p) == Len(p) <= Len(s) /\ SubSeq(s, Len(s) - Len(p) + 1, Len(s)) = p

\* p in s
contains(s, p) == \E i \in 1..(Len(s) - Len(p) + 1) : SubSeq(s, i, i + Len(p) - 1) = p

\* s.strip()
RECURSIVE lstrip(_)
lstrip(s) == IF s # <<>> /\ IsSpace(Head(s)) THEN lstrip(Tail(s)) ELSE s
RECURSIVE rstrip(_)
rstrip(s) == IF s # <<>> /\ IsSpace(s[Len(s)]) THEN rstrip(SubSeq(s, 1, Len(s) - 1)) ELSE s
strip(s) == rstrip(lstrip(s))

\* re.sub(r'\s+', ' ', s): every maximal run of whitespace becomes one space
RECURSIVE sub_spaces(_)
sub_spaces(s) ==
    IF s = <<>> THEN <<>>
    ELSE IF IsSpace(Head(s)) THEN <<" ">> \o sub_spaces(lstrip(s))
    ELSE <<Head(s)>> \o sub_spaces(Tail(s))

\* re.sub(r'\s+', '', s): whitespace removed
compact(s) == SelectSeq(s, LAMBDA c : ~IsSpace(c))

\* re.sub(r'[^\w\s]', ' ', s)
sub_punct(s) == [i \in DOMAIN s |-> IF IsWord(s[i]) \/ IsSpace(s[i]) THEN s[i] ELSE " "]

\* ' '.join(s.split()): the whitespace-separated words joined by single spaces
join_split(s) == strip(sub_spaces(s))

\* str(n) for an integer n
RECURSIVE StrNat(_)
StrNat(n) == IF n < 10 THEN <<Digits[n + 1]>> ELSE StrNat(n \div 10) \o <<Digits[(n % 10) + 1]>>
str(n) == IF n < 0 THEN <<"-">> \o StrNat(0 - n) ELSE StrNat(n)

-----------------------------------------------------------------------------
(* torrent_utils.py *)

_normalize(s) ==
    LET s1 == replace(replace(lower(s), "&", <<"a", "n", "d">>), "+", <<"a", "n", "d">>)
        s2 == replace(replace(s1, "'", <<>>), RightQuote, <<>>)
        s3 == sub_punct(s2)
    IN  strip(sub_spaces(s3))

\* \b at the position between s[p] and s[p + 1] (p in 0..Len(s))
WordAt(s, p) == p >= 1 /\ p <= Len(s) /\ IsWord(s[p])
Boundary(s, p) == WordAt(s, p) # WordAt(s, p + 1)

\* pat occurs at s[i..] with \b on both sides
TokenAt(s, pat, i) ==
    /\ i >= 1
    /\ i + Len(pat) - 1 <= Len(s)
    /\ SubSeq(s, i, i + Len(pat) - 1) = pat
    /\ Boundary(s, i - 1)
    /\ Boundary(s, i + Len(pat) - 1)

\* a search for pat as a plain substring, without the \b anchors
RECURSIVE re_search_plain(_, _, _)
re_search_plain(s, pat, i) ==
    IF i + Len(pat) - 1 > Len(s) THEN 0
    ELSE IF SubSeq(s, i, i + Len(pat) - 1) = pat THEN i
    ELSE re_search_plain(s, pat, i + 1)

\* re.search(r'\b' + pat + r'\b', s): the start of the leftmost match scanning
\* from i, or 0 for no match
RECURSIVE re_search(_, _, _)
re_search(s, pat, i) ==
    IF i + Len(pat) - 1 > Len(s) THEN 0
    ELSE IF TokenAt(s, pat, i) THEN i
    ELSE re_search(s, pat, i + 1)

\* the body of the loop of title_matches for one year: TRUE when it returns True
year_matches(name_norm, title_norm, yr) ==
    LET yr_match == re_search(name_norm, str(yr), 1)
    IN  /\ yr_match # 0
        /\ LET torrent_title == strip(SubSeq(name_norm, 1, yr_match - 1))
               torrent_compact == compact(torrent_title)
               title_compact == compact(title_norm)
           IN  \/ torrent_title = title_norm
               \/ startswith(torrent_title, title_norm \o <<" ">>)
               \/ torrent_compact = title_compact
               \/ startswith(torrent_compact, title_compact)

\* the years the loop of title_matches runs over (line 25)
loop_years(y, tolerant) == <<y>> \o (IF tolerant THEN <<y - 1, y + 1>> ELSE <<>>)

RECURSIVE title_matches_loop(_, _, _, _)
title_matches_loop(name_norm, title_norm, yrs, k) ==
    IF k > Len(yrs) THEN FALSE
    ELSE IF year_matches(name_norm, title_norm, yrs[k]) THEN TRUE
    ELSE title_matches_loop(name_norm, title_norm, yrs, k + 1)

\* title_matches(torrent_name, movie_name, year, fuzzy_year); y is int(year).
\* years_to_check and year_ok (lines 21-22) are computed and never read.
title_matches(name, title, y, tolerant) ==
    LET name_norm == _normalize(name)
        title_norm == join_split(_normalize(title))
    IN  title_matches_loop(name_norm, title_norm, loop_years(y, tolerant), 1)

-----------------------------------------------------------------------------
(* Inputs of title_matches *)

\* catalogue years; one digit keeps the release names short
Years == {5, 6}

\* characters of the release names drawn character by character
NameChars == {"a", " ", "_", "5"}

\* all strings over a set of characters up to a length
Strings(chars, n) == UNION {[1..k -> chars] : k \in 0..n}

\* catalogue titles: empty, one word, two words, with an underscore, the year
\* itself, ending in the year, with an ampersand, with an apostrophe, made of
\* punctuation only
Titles == { <<>>, <<"a">>, <<"A", " ", "a">>, <<"a", "_", "a">>, <<"5">>,
            <<"a", " ", "5">>, <<"a", "&", "a">>, <<"a", "'", "a">>, <<".">> }

\* what one character of a title may become in a release name
Variants(c) ==
    IF c \in LowerSet \cup UpperSet THEN {<<LowerChar(c)>>, <<UpperChar(c)>>}
    ELSE IF c \in {" ", ".", "-", "_"} THEN {<<c>>, <<" ">>, <<".">>, <<"-">>}
    ELSE IF c \in {"&", "+"} THEN {<<"&">>, <<"+">>, <<"a", "n", "d">>}
    ELSE IF c = "'" THEN {<<"'">>, <<>>}
    ELSE {<<c>>}

\* the punctuation-perturbed forms of a title
RECURSIVE Perturbations(_)
Perturbations(t) ==
    IF t = <<>> THEN {<<>>}
    ELSE {v \o rest : v \in Variants(Head(t)), rest \in Perturbations(Tail(t))}

\* separators between the title and the year of a release name
Seps == {" ", "."}

\* release names formed as a perturbed title immediately followed by a year
PerturbedNames(t, y) == {p \o <<s>> \o str(y) : p \in Perturbations(t), s \in Seps}

IsPerturbedOf(name, t, y) == name \in PerturbedNames(t, y)

\* longer release names: a subtitle, a compact title, trailing descriptors
FixedNames == { <<"a", " ", "a", " ", "5">>, <<"a", "a", "a", " ", "5", " ", "a">>,
                <<"a", ".", "5", ".", "6">>, <<"a", ".", "6", ".", "5">>,
                <<"a", " ", "5", "5">>, <<"a", " ", "5", " ", "5">> }

-----------------------------------------------------------------------------
(* SpecNorm: one call of _normalize *)

\* the characters of the arguments: letters of both cases, the dotless i,
\* whitespace, and punctuation that is replaced, removed or turned into a space
TextChars == {"a", "I", DotlessI, " ", "\t", "&", "'", ".", "_", "5"}

\* two spellings of one title
MovieUnderscoreTitle == <<"M", "o", "v", "i", "e", "_", "T", "i", "t", "l", "e">>
MovieDotTitle == <<"M", "o", "v", "i", "e", ".", "T", "i", "t", "l", "e">>

InitNorm ==
    /\ pc = "_normalize"
    /\ text \in Strings(TextChars, MaxTextLen) \cup {MovieUnderscoreTitle, MovieDotTitle}
    /\ normalized = <<>>
    /\ movie_name = <<>> /\ year = 0
    /\ IdleMatch /\ IdleRank /\ IdleFind /\ IdleDecode /\ IdleScripts

Call_normalize ==
    /\ pc = "_normalize"
    /\ normalized' = _normalize(text)
    /\ pc' = "done"
    /\ UNCHANGED <<titleVars, scriptVars, text, matchVars, rankVars, findVars, decodeVars>>

NextNorm == Call_normalize

SpecNorm == InitNorm /\ [][NextNorm]_vars

-----------------------------------------------------------------------------
(* SpecMatch: one call of title_matches *)

InitMatch ==
    /\ pc = "title_matches"
    /\ movie_name \in Titles
    /\ year \in Years
    /\ fuzzy_year \in BOOLEAN
    /\ torrent_name \in Strings(NameChars, MaxNameLen) \cup FixedNames
                        \cup UNION {PerturbedNames(movie_name, y) : y \in Years}
    /\ ret = FALSE
    /\ IdleRank /\ IdleFind /\ IdleDecode /\ IdleNorm /\ IdleScripts

CallTitleMatches ==
    /\ pc = "title_matches"
    /\ ret' = title_matches(torrent_name, movie_name, year, fuzzy_year)
    /\ pc' = "done"
    /\ UNCHANGED <<titleVars, normVars, scriptVars, torrent_name, fuzzy_year, rankVars, findVars, decodeVars>>

NextMatch == CallTitleMatches

SpecMatch == InitMatch /\ [][NextMatch]_vars

-----------------------------------------------------------------------------
(* search_iptorrents.py: rank_results *)

\* MAX_SIZE_BYTES = 4 * 1024**3 bytes. Sizes are counted in KiB here, because
\* 2^32 is not an integer of the model checker; only the order of sizes is read.
MAX_SIZE_BYTES == 4 * 1024 * 1024

\* the markers searched in the lowercased name
M1080p == <<"1", "0", "8", "0", "p">>
M720p == <<"7", "2", "0", "p">>
Mx265 == <<"x", "2", "6", "5">>
Mh265 == <<"h", "2", "6", "5">>
Mhdot265 == <<"h", ".", "2", "6", "5">>
Mhevc == <<"h", "e", "v", "c">>
Mx264 == <<"x", "2", "6", "4">>
Mh264 == <<"h", "2", "6", "4">>
Mhdot264 == <<"h", ".", "2", "6", "4">>

\* the order in which the resolutions are tried (lines 145 and 156)
resolutions_720p_first == <<M720p, M1080p>>
resolutions == <<M1080p, M720p>>

\* re.search(r"x265|h\.?265|hevc", name_lower)
is_x265(name_lower) ==
    \/ contains(name_lower, Mx265) \/ contains(name_lower, Mh265)
    \/ contains(name_lower, Mhdot265) \/ contains(name_lower, Mhevc)

\* re.search(r"x264|h\.?264", name_lower)
is_x264(name_lower) ==
    \/ contains(name_lower, Mx264) \/ contains(name_lower, Mh264)
    \/ contains(name_lower, Mhdot264)

\* the codec bucket with the x264 pattern tried first
codec_of_x264_first(name_lower) ==
    IF is_x264(name_lower) THEN "x264"
    ELSE IF is_x265(name_lower) THEN "x265"
    ELSE "other"

\* the codec bucket of lines 147-152
codec_of(name_lower) ==
    IF is_x265(name_lower) THEN "x265"
    ELSE IF is_x264(name_lower) THEN "x264"
    ELSE "other"

\* a name with no resolution marker filed under 720p
resolution_of_default_720p(name_lower) ==
    IF contains(name_lower, resolutions[1]) THEN resolutions[1] ELSE resolutions[2]

\* the inner loop of lines 145-153: the first resolution contained in the
\* name, <<>> when the name contains none (the entry enters no bucket)
resolution_of(name_lower) ==
    IF contains(name_lower, resolutions[1]) THEN resolutions[1]
    ELSE IF contains(name_lower, resolutions[2]) THEN resolutions[2]
    ELSE <<>>

\* the title filter applied in tolerant mode
title_filter_fuzzy(r, title, y) == title # <<>> /\ ~title_matches(r.name, title, y, TRUE)

\* line 140: the entry is skipped by the title filter
title_filter(r, title, y) == title # <<>> /\ ~title_matches(r.name, title, y, FALSE)

\* the size filter with the ceiling itself excluded
size_filter_strict(r) == r.size_bytes >= MAX_SIZE_BYTES

\* line 142: the entry is skipped by the size filter
size_filter(r) == r.size_bytes > MAX_SIZE_BYTES

\* the loop of lines 138-153: for each entry the bucket <<res, codec>> it is
\* appended to, <<>> for an entry skipped by a filter, and <<<<>>, codec>> for
\* an entry whose name contains no resolution (appended to no bucket)
classify(rs, title, y) ==
    [i \in DOMAIN rs |->
        IF title_filter(rs[i], title, y) \/ size_filter(rs[i]) THEN <<>>
        ELSE <<resolution_of(lower(rs[i].name)), codec_of(lower(rs[i].name))>>]

\* buckets[res][codec]: the positions of the entries appended to it, in input
\* order
bucket(cl, res, codec) ==
    SelectSeq([i \in DOMAIN cl |-> i], LAMBDA i : cl[i] = <<res, codec>>)

\* min with the last of the smallest entries returned
RECURSIVE min_by_size_last(_, _)
RECURSIVE min_by_size(_, _)
min_by_size_last(rs, b) ==
    IF Len(b) = 1 THEN b[1]
    ELSE LET m == min_by_size_last(rs, Tail(b))
         IN  IF rs[m].size_bytes <= rs[b[1]].size_bytes THEN m ELSE b[1]
\* min(b, key=size_bytes) and max(b, key=size_bytes): the first of the
\* smallest (largest) entries of a non-empty list of positions
min_by_size(rs, b) ==
    IF Len(b) = 1 THEN b[1]
    ELSE LET m == min_by_size(rs, Tail(b))
         IN  IF rs[m].size_bytes < rs[b[1]].size_bytes THEN m ELSE b[1]
RECURSIVE max_by_size(_, _)
max_by_size(rs, b) ==
    IF Len(b) = 1 THEN b[1]
    ELSE LET m == max_by_size(rs, Tail(b))
         IN  IF rs[m].size_bytes > rs[b[1]].size_bytes THEN m ELSE b[1]

\* one round of the loop of lines 156-166 for resolution res: the position
\* returned, 0 when all three buckets of res are empty
pick(rs, cl, res) ==
    LET x265 == bucket(cl, res, "x265")
        x264 == bucket(cl, res, "x264")
        other == bucket(cl, res, "other")
    IN  IF x265 # <<>> THEN min_by_size(rs, x265)
        ELSE IF x264 # <<>> THEN min_by_size(rs, x264)
        ELSE IF other # <<>> THEN max_by_size(rs, other)
        ELSE 0

\* rank_results(results, movie_name, year): the position of the entry
\* returned, 0 for None (line 168)
rank_results(rs, title, y) ==
    LET cl == classify(rs, title, y)
        first == pick(rs, cl, resolutions[1])
    IN  IF first # 0 THEN first ELSE pick(rs, cl, resolutions[2])

-----------------------------------------------------------------------------
(* Inputs of rank_results *)

\* a release name: title, year and descriptors separated by dots
RECURSIVE Dotted(_)
Dotted(parts) == IF parts = <<>> THEN <<>> ELSE <<".">> \o Head(parts) \o Dotted(Tail(parts))
RelName(title, y, tags) == title \o <<".">> \o str(y) \o Dotted(tags)

\* release names of the movie "a" (5) in every bucket and in none, of another
\* movie, and of the movie one year off
RankNames ==
    { RelName(<<"a">>, 5, <<M1080p, Mx265>>),
      RelName(<<"a">>, 5, <<M1080p, Mhdot264>>),
      RelName(<<"a">>, 5, <<M1080p>>),
      RelName(<<"A">>, 5, <<M720p, <<"H", "E", "V", "C">>>>),
      RelName(<<"a">>, 5, <<M720p, Mx264>>),
      RelName(<<"a">>, 5, <<M720p>>),
      RelName(<<"a">>, 5, <<Mx264>>) }
OtherNames ==
    { RelName(<<"b">>, 5, <<M1080p, Mx265>>),
      RelName(<<"a">>, 6, <<M1080p, Mx265>>) }
CeilingNames ==
    { RelName(<<"a">>, 5, <<M1080p>>), RelName(<<"a">>, 5, <<Mx264>>) }

Entry(n, sz) == [name |-> n, size_bytes |-> sz]

\* two sizes under the ceiling, the ceiling itself, and one unit above it
Entries ==
    {Entry(n, sz) : n \in RankNames, sz \in {1, 2}}
        \cup {Entry(n, 1) : n \in OtherNames}
        \cup {Entry(n, sz) : n \in CeilingNames, sz \in {MAX_SIZE_BYTES, MAX_SIZE_BYTES + 1}}

-----------------------------------------------------------------------------
(* SpecRank: one call of rank_results *)

InitRank ==
    /\ pc = "rank_results"
    /\ movie_name \in {<<>>, <<"a">>}
    /\ year = 5
    /\ results \in UNION {[1..n -> Entries] : n \in 0..MaxResults}
    /\ best = 0
    /\ IdleMatch /\ IdleFind /\ IdleDecode /\ IdleNorm /\ IdleScripts

CallRankResults ==
    /\ pc = "rank_results"
    /\ best' = rank_results(results, movie_name, year)
    /\ pc' = "done"
    /\ UNCHANGED <<titleVars, normVars, scriptVars, matchVars, results, findVars, decodeVars>>

NextRank == CallRankResults

SpecRank == InitRank /\ [][NextRank]_vars

-----------------------------------------------------------------------------
(* SpecClassify: one call of rank_results on names with several markers *)

M1080P == <<"1", "0", "8", "0", "P">>
MHEVC == <<"H", "E", "V", "C">>

\* release names of the movie "a" (5) that carry both resolutions, both
\* codecs or upper-case markers, next to names with one marker of each kind
ClassifyNames ==
    { RelName(<<"a">>, 5, <<M1080p, M720p>>),
      RelName(<<"a">>, 5, <<M720p, M1080p, Mx264, Mhevc>>),
      RelName(<<"A">>, 5, <<M1080P, MHEVC>>),
      RelName(<<"a">>, 5, <<M720p, Mx264, Mx265>>),
      RelName(<<"a">>, 5, <<M720p, Mx265>>),
      RelName(<<"a">>, 5, <<M1080p, Mx264>>),
      RelName(<<"a">>, 5, <<M720p>>) }

ClassifyEntries == {Entry(n, sz) : n \in ClassifyNames, sz \in {1, 2}}

InitClassify ==
    /\ pc = "rank_results"
    /\ movie_name \in {<<>>, <<"a">>}
    /\ year = 5
    /\ results \in UNION {[1..n -> ClassifyEntries] : n \in 0..MaxResults}
    /\ best = 0
    /\ IdleMatch /\ IdleFind /\ IdleDecode /\ IdleNorm /\ IdleScripts

SpecClassify == InitClassify /\ [][NextRank]_vars

-----------------------------------------------------------------------------
(* torrent_utils.py: find_matching_torrent *)

DotTorrent == <<".", "t", "o", "r", "r", "e", "n", "t">>

\* s.removesuffix(suffix)
removesuffix(s, suffix) ==
    IF endswith(s, suffix) THEN SubSeq(s, 1, Len(s) - Len(suffix)) ELSE s

\* the outer loop with the tolerant mode tried first
modes_fuzzy_first == <<TRUE, FALSE>>

\* line 45: for fuzzy in (False, True)
modes == <<FALSE, TRUE>>

\* line 44: the names of the listing that end in .torrent, in listing order
select_torrents(names) == SelectSeq(names, LAMBDA f : endswith(f, DotTorrent))

\* line 48: the test applied to torrent_files[i] in mode modes[m]
candidate_matches(files, i, title, y, m) ==
    title_matches(removesuffix(files[i], DotTorrent), title, y, modes[m])

\* lines 42-43: the directory does not exist
FindNotDir ==
    /\ pc = "find_matching_torrent"
    /\ ~isdir
    /\ found' = 0
    /\ pc' = "done"
    /\ UNCHANGED <<titleVars, normVars, scriptVars, matchVars, rankVars, decodeVars, isdir, listing, torrent_files, fuzzy, tf>>

\* line 44, and the loops of lines 45-46 entered
FindList ==
    /\ pc = "find_matching_torrent"
    /\ isdir
    /\ torrent_files' = select_torrents(listing)
    /\ fuzzy' = 1
    /\ tf' = 1
    /\ pc' = "scan"
    /\ UNCHANGED <<titleVars, normVars, scriptVars, matchVars, rankVars, decodeVars, isdir, listing, found>>

\* lines 47-49: the candidate matches and is returned
FindMatch ==
    /\ pc = "scan"
    /\ tf <= Len(torrent_files)
    /\ candidate_matches(torrent_files, tf, movie_name, year, fuzzy)
    /\ found' = tf
    /\ pc' = "done"
    /\ UNCHANGED <<titleVars, normVars, scriptVars, matchVars, rankVars, decodeVars, isdir, listing, torrent_files, fuzzy, tf>>

\* lines 46-48: the candidate does not match; the inner loop goes on
FindSkip ==
    /\ pc = "scan"
    /\ tf <= Len(torrent_files)
    /\ ~candidate_matches(torrent_files, tf, movie_name, year, fuzzy)
    /\ tf' = tf + 1
    /\ UNCHANGED <<pc, titleVars, normVars, scriptVars, matchVars, rankVars, decodeVars, isdir, listing, torrent_files, fuzzy, found>>

\* line 45: the inner loop is exhausted; the outer loop takes the next mode
FindNextMode ==
    /\ pc = "scan"
    /\ tf > Len(torrent_files)
    /\ fuzzy < Len(modes)
    /\ fuzzy' = fuzzy + 1
    /\ tf' = 1
    /\ UNCHANGED <<pc, titleVars, normVars, scriptVars, matchVars, rankVars, decodeVars, isdir, listing, torrent_files, found>>

\* line 50: both loops are exhausted
FindNone ==
    /\ pc = "scan"
    /\ tf > Len(torrent_files)
    /\ fuzzy = Len(modes)
    /\ found' = 0
    /\ pc' = "done"
    /\ UNCHANGED <<titleVars, normVars, scriptVars, matchVars, rankVars, decodeVars, isdir, listing, torrent_files, fuzzy, tf>>

-----------------------------------------------------------------------------
(* SpecFind: one call of find_matching_torrent *)

\* names of a torrents directory: the movie "a" of year 5, 6 and 4, the movie
\* "aa" of year 5, another movie, and a file that is no .torrent
FileNames ==
    { <<"a", ".", "5">> \o DotTorrent, <<"a", ".", "6">> \o DotTorrent,
      <<"a", ".", "4">> \o DotTorrent, <<"a", "a", ".", "5">> \o DotTorrent,
      <<"b", ".", "5">> \o DotTorrent, <<"a", ".", "5", ".", "t", "x", "t">> }

\* a directory listing: distinct names in any order
Listings(n) ==
    {l \in UNION {[1..k -> FileNames] : k \in 0..n} :
        \A i, j \in DOMAIN l : i # j => l[i] # l[j]}

InitFind ==
    /\ pc = "find_matching_torrent"
    /\ movie_name \in {<<"a">>, <<"A", "a">>}
    /\ year \in Years
    /\ isdir \in BOOLEAN
    /\ listing \in IF isdir THEN Listings(MaxFiles) ELSE {<<>>}
    /\ torrent_files = <<>>
    /\ fuzzy = 1
    /\ tf = 1
    /\ found = 0
    /\ IdleMatch /\ IdleRank /\ IdleDecode /\ IdleNorm /\ IdleScripts

NextFind == FindNotDir \/ FindList \/ FindMatch \/ FindSkip \/ FindNextMode \/ FindNone

SpecFind == InitFind /\ [][NextFind]_vars

-----------------------------------------------------------------------------
(* torrent_sizes.py: bdecode *)

\* the values bdecode builds, each tagged with its Python type
BInt(n) == [t |-> "int", v |-> n]
BBytes(b) == [t |-> "bytes", v |-> b]
\* a key left as the bytes it was decoded to
BStr_undecoded(b) == [t |-> "bytes", v |-> b]
BStr(b) == [t |-> "str", v |-> b]
BList(xs) == [t |-> "list", v |-> xs]
BDict(kvs) == [t |-> "dict", v |-> kvs]

\* the outcome of a call: a return of (val, idx), or an exception raised
Return(val, i) == [exc |-> "none", val |-> val, idx |-> i]
Raise(e) == [exc |-> e]

\* data[i:j] and data.index(c, i) with Python's offsets, which start at 0
slice(b, i, j) == SubSeq(b, i + 1, IF j > Len(b) THEN Len(b) ELSE j)
\* data.rindex(c, i): the last occurrence instead of the first
RECURSIVE rindex(_, _, _)
rindex(b, c, i) ==
    IF i >= Len(b) THEN -1
    ELSE LET r == rindex(b, c, i + 1)
         IN  IF r # -1 THEN r ELSE IF b[i + 1] = c THEN i ELSE -1
RECURSIVE index(_, _, _)
index(b, c, i) ==
    IF i >= Len(b) THEN -1
    ELSE IF b[i + 1] = c THEN i
    ELSE index(b, c, i + 1)

\* int(b) for a bytes object b: the digits, with an optional sign, optional
\* surrounding whitespace and single underscores between digits
IsDigits(b) ==
    /\ b # <<>>
    /\ \A k \in DOMAIN b : b[k] \in DigitSet \/ b[k] = "_"
    /\ b[1] # "_" /\ b[Len(b)] # "_"
    /\ \A k \in 1..(Len(b) - 1) : ~(b[k] = "_" /\ b[k + 1] = "_")
DigitValue(c) == CHOOSE n \in 0..9 : Digits[n + 1] = c
RECURSIVE DigitsValue(_, _)
DigitsValue(b, acc) ==
    IF b = <<>> THEN acc
    ELSE IF Head(b) = "_" THEN DigitsValue(Tail(b), acc)
    ELSE DigitsValue(Tail(b), 10 * acc + DigitValue(Head(b)))
int_valid(b) ==
    LET t == strip(b)
    IN  IF t # <<>> /\ t[1] \in {"+", "-"} THEN IsDigits(Tail(t)) ELSE IsDigits(t)
int_value(b) ==
    LET t == strip(b)
    IN  IF t[1] = "-" THEN 0 - DigitsValue(Tail(t), 0)
        ELSE IF t[1] = "+" THEN DigitsValue(Tail(t), 0)
        ELSE DigitsValue(t, 0)

\* key.decode('utf-8', errors='replace') for a key of ASCII bytes: the same
\* characters as text
decode_utf8(b) == b

\* result[key] = val: the entry of an equal key is overwritten in place, a
\* new key is appended
dict_set(kvs, key, val) ==
    IF \E k \in DOMAIN kvs : kvs[k][1] = key
    THEN [k \in DOMAIN kvs |-> IF kvs[k][1] = key THEN <<key, val>> ELSE kvs[k]]
    ELSE Append(kvs, <<key, val>>)

\* a loop test that also leaves the loop at the end of the buffer
at_end_or_eof(b, i) == slice(b, i, i + 1) = <<"e">> \/ i >= Len(b)

\* lines 17 and 24: data[idx:idx + 1] == b'e', the test that ends the loop
at_end(b, i) == slice(b, i, i + 1) = <<"e">>

RECURSIVE bdecode(_, _)
RECURSIVE bdecode_list(_, _, _)
RECURSIVE bdecode_dict(_, _, _)

\* the loop of lines 17-20, entered with idx = i and result = acc
bdecode_list(b, i, acc) ==
    IF at_end(b, i) THEN Return(BList(acc), i + 1)
    ELSE LET r == bdecode(b, i)
         IN  IF r.exc # "none" THEN r
             ELSE bdecode_list(b, r.idx, Append(acc, r.val))

\* the loop of lines 24-30, entered with idx = i and result = acc
bdecode_dict(b, i, acc) ==
    IF at_end(b, i) THEN Return(BDict(acc), i + 1)
    ELSE LET k == bdecode(b, i)
         IN  IF k.exc # "none" THEN k
             ELSE LET r == bdecode(b, k.idx)
                      key == IF k.val.t = "bytes" THEN BStr(decode_utf8(k.val.v))
                             ELSE k.val
                  IN  IF r.exc # "none" THEN r
                      ELSE IF key.t \in {"list", "dict"} THEN Raise("TypeError")
                      ELSE bdecode_dict(b, r.idx, dict_set(acc, key, r.val))

\* bdecode(data, idx)
bdecode(b, i) ==
    LET ch == slice(b, i, i + 1)
    IN  IF ch = <<"i">> THEN
            LET end == index(b, "e", i + 1)
            IN  IF end = -1 THEN Raise("ValueError")
                ELSE IF ~int_valid(slice(b, i + 1, end)) THEN Raise("ValueError")
                ELSE Return(BInt(int_value(slice(b, i + 1, end))), end + 1)
        ELSE IF ch = <<"l">> THEN bdecode_list(b, i + 1, <<>>)
        ELSE IF ch = <<"d">> THEN bdecode_dict(b, i + 1, <<>>)
        ELSE IF ch # <<>> /\ ch[1] \in DigitSet THEN
            LET colon == index(b, ":", i)
            IN  IF colon = -1 THEN Raise("ValueError")
                ELSE IF ~int_valid(slice(b, i, colon)) THEN Raise("ValueError")
                ELSE LET length == int_value(slice(b, i, colon))
                         start == colon + 1
                     IN  Return(BBytes(slice(b, start, start + length)), start + length)
        ELSE Raise("ValueError")

-----------------------------------------------------------------------------
(* SpecDecode: one call of bdecode *)

\* the bytes of the buffers drawn byte by byte
ByteChars == {"d", "l", "e", "i", ":", "1"}

\* buffers cut short: a dictionary with a key and no value, a list and a
\* dictionary with no terminator
Unterminated ==
    { <<"d", "3", ":", "f", "o", "o">>, <<"l", "4", ":", "s", "p", "a", "m">>,
      <<"d">>, <<"l">>, <<"d", "1", ":", "a", "i", "1", "e">>,
      <<"l", "l", "e">>, <<"d", "1", ":", "a", "l", "i", "1", "e">> }

\* longer well-formed buffers: dictionaries with entries, nested containers
WellFormed ==
    { <<"d", "1", ":", "a", "i", "1", "e", "e">>,
      <<"d", "1", ":", "a", "l", "e", "1", ":", "b", "d", "e", "e">>,
      <<"l", "i", "-", "1", "2", "e", "2", ":", "a", "b", "l", "e", "e">>,
      <<"d", "3", ":", "f", "o", "o", "l", "1", ":", "a", "e", "e">> }

\* the buffers of the documented grammar: the four kinds of value (i42e,
\* 4:spam, l4:spami42ee, d3:bar4:spam3:fooi42ee), integers with a sign and
\* with zeros (i0e, i-42e, i042e, i00e, i-0e), a length longer than the buffer
\* (10:abc), dictionaries with an integer key (di1ei2ee, d1:a1:bi1ei2ee), and
\* values followed by more bytes (i42e4:spam, 4:spamxx, l4:spami42eei0e)
Fixtures ==
    { <<"i", "4", "2", "e">>,
      <<"4", ":", "s", "p", "a", "m">>,
      <<"l", "4", ":", "s", "p", "a", "m", "i", "4", "2", "e", "e">>,
      <<"d", "3", ":", "b", "a", "r", "4", ":", "s", "p", "a", "m", "3", ":", "f", "o", "o", "i", "4", "2", "e", "e">>,
      <<"i", "0", "e">>,
      <<"i", "-", "4", "2", "e">>,
      <<"i", "0", "4", "2", "e">>,
      <<"i", "0", "0", "e">>,
      <<"i", "-", "0", "e">>,
      <<"1", "0", ":", "a", "b", "c">>,
      <<"d", "i", "1", "e", "i", "2", "e", "e">>,
      <<"d", "1", ":", "a", "1", ":", "b", "i", "1", "e", "i", "2", "e", "e">>,
      <<"i", "4", "2", "e", "4", ":", "s", "p", "a", "m">>,
      <<"4", ":", "s", "p", "a", "m", "x", "x">>,
      <<"l", "4", ":", "s", "p", "a", "m", "i", "4", "2", "e", "e", "i", "0", "e">> }

\* the buffers bdecode is called with
Buffers == Strings(ByteChars, MaxDataLen) \cup Unterminated \cup WellFormed \cup Fixtures

InitDecode ==
    /\ pc = "bdecode"
    /\ data \in Buffers
    /\ decoded = [exc |-> "pending"]
    /\ IdleSteps /\ IdleSize
    /\ movie_name = <<>> /\ year = 0
    /\ IdleMatch /\ IdleRank /\ IdleFind /\ IdleNorm /\ IdleScripts

CallBdecode ==
    /\ pc = "bdecode"
    /\ decoded' = bdecode(data, 0)
    /\ pc' = "done"
    /\ UNCHANGED <<titleVars, normVars, scriptVars, matchVars, rankVars, findVars, data, stack, idx, size>>

NextDecode == CallBdecode

SpecDecode == InitDecode /\ [][NextDecode]_vars

-----------------------------------------------------------------------------
(* torrent_sizes.py: bdecode, one step of one call at a time *)

\* a call of bdecode that is inside its loop: the container it builds
\* (result) and, in a dictionary, the key decoded at line 25 while the value
\* of line 26 is awaited (<<>> when no key is held)
Frame(kind, result, key) == [kind |-> kind, result |-> result, key |-> key]

Top == stack[Len(stack)]
Pop == SubSeq(stack, 1, Len(stack) - 1)

\* the innermost call is at the test of its while loop (line 17 or 24)
AtLoopTest == stack # <<>> /\ Top.key = <<>>

\* the innermost call is at line 10: it is a fresh call of bdecode
AtCall == pc = "step" /\ ~(AtLoopTest /\ at_end(data, idx))

\* a step that leaves the offset where it is
idx_stay(i) == i

\* lines 15 and 22: idx += 1
idx_inc(i) == i + 1

\* an exception leaves every call of bdecode: none of them catches it
Raised(e) ==
    /\ decoded' = Raise(e)
    /\ stack' = <<>>
    /\ pc' = "done"
    /\ UNCHANGED idx

\* a call returns (val, i) to the call below it, whose frames are st: the
\* outermost call returns to the caller of bdecode, a list appends the value
\* (line 19), a dictionary keeps it as the key (line 25) or stores it under the
\* key it holds (lines 26-29)
Returned(st, val, i) ==
    IF st = <<>> THEN
        /\ decoded' = Return(val, i)
        /\ stack' = <<>>
        /\ idx' = i
        /\ pc' = "done"
    ELSE
        LET f == st[Len(st)]
        IN  IF f.kind = "list" THEN
                /\ stack' = [st EXCEPT ![Len(st)] = Frame("list", Append(f.result, val), <<>>)]
                /\ idx' = i
                /\ UNCHANGED <<pc, decoded>>
            ELSE IF f.key = <<>> THEN
                /\ stack' = [st EXCEPT ![Len(st)] = Frame("dict", f.result, <<val>>)]
                /\ idx' = i
                /\ UNCHANGED <<pc, decoded>>
            ELSE
                LET key == IF f.key[1].t = "bytes" THEN BStr(decode_utf8(f.key[1].v))
                           ELSE f.key[1]
                IN  IF key.t \in {"list", "dict"} THEN Raised("TypeError")
                    ELSE /\ stack' = [st EXCEPT ![Len(st)] =
                                         Frame("dict", dict_set(f.result, key, val), <<>>)]
                         /\ idx' = i
                         /\ UNCHANGED <<pc, decoded>>

\* lines 11-13: an integer
StepInt ==
    /\ AtCall
    /\ slice(data, idx, idx + 1) = <<"i">>
    /\ LET end == index(data, "e", idx + 1)
       IN  IF end = -1 THEN Raised("ValueError")
           ELSE IF ~int_valid(slice(data, idx + 1, end)) THEN Raised("ValueError")
           ELSE Returned(stack, BInt(int_value(slice(data, idx + 1, end))), end + 1)
    /\ UNCHANGED <<titleVars, normVars, scriptVars, matchVars, rankVars, findVars, data, size>>

\* lines 14-16: a list is entered
StepList ==
    /\ AtCall
    /\ slice(data, idx, idx + 1) = <<"l">>
    /\ stack' = Append(stack, Frame("list", <<>>, <<>>))
    /\ idx' = idx_inc(idx)
    /\ UNCHANGED <<pc, titleVars, normVars, scriptVars, matchVars, rankVars, findVars, data, decoded, size>>

\* lines 21-23: a dictionary is entered
StepDict ==
    /\ AtCall
    /\ slice(data, idx, idx + 1) = <<"d">>
    /\ stack' = Append(stack, Frame("dict", <<>>, <<>>))
    /\ idx' = idx_inc(idx)
    /\ UNCHANGED <<pc, titleVars, normVars, scriptVars, matchVars, rankVars, findVars, data, decoded, size>>

\* lines 31-35: a byte string
StepBytes ==
    /\ AtCall
    /\ slice(data, idx, idx + 1) # <<>>
    /\ slice(data, idx, idx + 1)[1] \in DigitSet
    /\ LET colon == index(data, ":", idx)
       IN  IF colon = -1 THEN Raised("ValueError")
           ELSE IF ~int_valid(slice(data, idx, colon)) THEN Raised("ValueError")
           ELSE LET length == int_value(slice(data, idx, colon))
                    start == colon + 1
                IN  Returned(stack, BBytes(slice(data, start, start + length)), start + length)
    /\ UNCHANGED <<titleVars, normVars, scriptVars, matchVars, rankVars, findVars, data, size>>

\* lines 36-37: any other byte, or the end of the buffer
StepInvalid ==
    /\ AtCall
    /\ slice(data, idx, idx + 1) \notin {<<"i">>, <<"l">>, <<"d">>}
    /\ IF slice(data, idx, idx + 1) = <<>> THEN TRUE
       ELSE slice(data, idx, idx + 1)[1] \notin DigitSet
    /\ Raised("ValueError")
    /\ UNCHANGED <<titleVars, normVars, scriptVars, matchVars, rankVars, findVars, data, size>>

\* lines 17 and 20, 24 and 30: the loop ends at a byte e and the container is
\* returned with the offset after it
StepClose ==
    /\ pc = "step"
    /\ AtLoopTest
    /\ at_end(data, idx)
    /\ Returned(Pop, IF Top.kind = "list" THEN BList(Top.result) ELSE BDict(Top.result),
                idx + 1)
    /\ UNCHANGED <<titleVars, normVars, scriptVars, matchVars, rankVars, findVars, data, size>>

-----------------------------------------------------------------------------
(* SpecSteps: one call of bdecode, step by step *)

\* a buffer of n nested lists: n bytes l and then n bytes e
Nested(n) == [k \in 1..(2 * n) |-> IF k <= n THEN "l" ELSE "e"]

\* lists nested 1000 and 1001 deep
DeepBuffers == {Nested(1000), Nested(1001)}

InitSteps ==
    /\ pc = "step"
    /\ data \in Buffers \cup DeepBuffers
    /\ decoded = [exc |-> "pending"]
    /\ IdleSteps /\ IdleSize
    /\ movie_name = <<>> /\ year = 0
    /\ IdleMatch /\ IdleRank /\ IdleFind /\ IdleNorm /\ IdleScripts

NextSteps == StepInt \/ StepList \/ StepDict \/ StepBytes \/ StepInvalid \/ StepClose

\* the call is one synchronous computation: a step that can be taken is taken
SpecSteps == InitSteps /\ [][NextSteps]_vars /\ WF_vars(NextSteps)

-----------------------------------------------------------------------------
(* torrent_sizes.py: torrent_size *)

\* most entries of a files list drawn
MaxEntries == 2

\* the value None
None == [t |-> "None"]

\* the keys torrent_size looks up
KeyInfo == BStr(<<"i", "n", "f", "o">>)
KeyLength == BStr(<<"l", "e", "n", "g", "t", "h">>)
KeyFiles == BStr(<<"f", "i", "l", "e", "s">>)

\* key in d and d[key] for a dictionary d
dict_has(d, key) == \E k \in DOMAIN d.v : d.v[k][1] = key
dict_get(d, key) == d.v[CHOOSE k \in DOMAIN d.v : d.v[k][1] = key][2]

\* the values a for loop over v yields: the elements of a list, the keys of a
\* dictionary, one integer for each byte of a byte string (the integer's value
\* is never read: subscripting it raises)
iterate(val) ==
    IF val.t = "list" THEN val.v
    ELSE IF val.t = "dict" THEN [k \in DOMAIN val.v |-> val.v[k][1]]
    ELSE [k \in DOMAIN val.v |-> BInt(0)]

RECURSIVE sum(_)
sum(ns) == IF ns = <<>> THEN 0 ELSE Head(ns) + sum(Tail(ns))

\* line 52: sum(f['length'] for f in info['files']); None stands for the
\* exception raised when files cannot be iterated, an entry is no dictionary
\* or has no length, or a length is no integer
sum_lengths(files) ==
    IF files.t = "int" THEN None
    ELSE LET fs == iterate(files)
         IN  IF \A k \in DOMAIN fs :
                    /\ fs[k].t = "dict"
                    /\ dict_has(fs[k], KeyLength)
                    /\ dict_get(fs[k], KeyLength).t = "int"
             THEN BInt(sum([k \in DOMAIN fs |-> dict_get(fs[k], KeyLength).v]))
             ELSE None

\* lines 49-55 with files tested before length
size_of_info_files_first(info) ==
    IF info.t # "dict" THEN None
    ELSE IF dict_has(info, KeyFiles) THEN sum_lengths(dict_get(info, KeyFiles))
    ELSE IF dict_has(info, KeyLength) THEN dict_get(info, KeyLength)
    ELSE None

\* lines 49-55 with the sum of no files returned when no size is found
size_of_info_empty_sum(info) ==
    IF info.t # "dict" THEN None
    ELSE IF dict_has(info, KeyLength) THEN dict_get(info, KeyLength)
    ELSE IF dict_has(info, KeyFiles) THEN sum_lengths(dict_get(info, KeyFiles))
    ELSE BInt(0)

\* lines 49-55: 'length' in info raises for an integer or a byte string and
\* is false for a list, whose elements are never text; every exception ends
\* in the return None of line 55
size_of_info(info) ==
    IF info.t # "dict" THEN None
    ELSE IF dict_has(info, KeyLength) THEN dict_get(info, KeyLength)
    ELSE IF dict_has(info, KeyFiles) THEN sum_lengths(dict_get(info, KeyFiles))
    ELSE None

\* torrent_size(path) for a file whose content is b
torrent_size(b) ==
    IF ~startswith(b, <<"d">>) THEN None
    ELSE LET r == bdecode(b, 0)
         IN  IF r.exc # "none" THEN None
             ELSE LET meta == r.val
                      info == IF dict_has(meta, KeyInfo) THEN dict_get(meta, KeyInfo)
                              ELSE BDict(<<>>)
                  IN  size_of_info(info)

-----------------------------------------------------------------------------
(* SpecSize: one call of torrent_size *)

\* the bencoding of an integer, a byte string, a list and a dictionary (of
\* encoded elements, and of encoded keys and values in turn)
BenInt(n) == <<"i">> \o str(n) \o <<"e">>
BenBytes(b) == str(Len(b)) \o <<":">> \o b
BenList(items) == <<"l">> \o Flatten(items) \o <<"e">>
BenDict(items) == <<"d">> \o Flatten(items) \o <<"e">>

\* a torrent file: an optional length (<<>> or <<n>>) and an optional list of
\* the lengths of its files (<<>> or <<fl>>) under info
FileEntry(n) == BenDict(<<BenBytes(KeyLength.v), BenInt(n)>>)
FilesValue(fl) == BenList([k \in DOMAIN fl |-> FileEntry(fl[k])])
InfoValue(lo, fo) ==
    BenDict((IF fo = <<>> THEN <<>> ELSE <<BenBytes(KeyFiles.v), FilesValue(fo[1])>>)
            \o (IF lo = <<>> THEN <<>> ELSE <<BenBytes(KeyLength.v), BenInt(lo[1])>>))
Torrent(lo, fo) == BenDict(<<BenBytes(KeyInfo.v), InfoValue(lo, fo)>>)

FileLengths == {5, 300, 700}
LengthOptions == {<<>>, <<0>>, <<5>>, <<1000>>}
FilesOptions ==
    {<<>>} \cup {<<fl>> : fl \in UNION {[1..k -> FileLengths] : k \in 0..MaxEntries}}
Torrents == {Torrent(lo, fo) : lo \in LengthOptions, fo \in FilesOptions}

\* torrent files of other shapes: info that is no dictionary, a length that
\* is no integer, files that is no list or holds no dictionaries, a files
\* entry without a length or with a length that is no integer, empty files
\* that are a dictionary or a byte string, and no info at all
OddInfos ==
    { BenInt(1), BenBytes(<<"a">>), BenList(<<>>),
      BenDict(<<BenBytes(KeyLength.v), BenBytes(<<"a">>)>>),
      BenDict(<<BenBytes(KeyFiles.v), BenInt(1)>>),
      BenDict(<<BenBytes(KeyFiles.v), BenList(<<BenInt(1)>>)>>),
      BenDict(<<BenBytes(KeyFiles.v), BenList(<<FileEntry(5), BenDict(<<>>)>>)>>),
      BenDict(<<BenBytes(KeyFiles.v),
                BenList(<<BenDict(<<BenBytes(KeyLength.v), BenBytes(<<"a">>)>>)>>)>>),
      BenDict(<<BenBytes(KeyFiles.v), BenDict(<<>>)>>),
      BenDict(<<BenBytes(KeyFiles.v), BenBytes(<<>>)>>),
      BenDict(<<BenBytes(KeyFiles.v), BenBytes(<<"a">>)>>) }
OddTorrents ==
    {BenDict(<<BenBytes(KeyInfo.v), i>>) : i \in OddInfos}
        \cup {BenDict(<<>>), BenDict(<<BenBytes(<<"f", "o", "o">>), BenInt(1)>>)}

\* a file cut short by its last byte, and files that are no dictionary
Cut(b) == SubSeq(b, 1, Len(b) - 1)
CutTorrents == {Cut(b) : b \in Torrents} \cup {Cut(Cut(b)) : b \in OddTorrents}
NoDicts == {<<>>, BenInt(1), BenList(<<>>), BenBytes(<<"a">>)}

Files == Torrents \cup OddTorrents \cup CutTorrents \cup NoDicts \cup Unterminated

InitSize ==
    /\ pc = "torrent_size"
    /\ data \in Files
    /\ decoded = [exc |-> "pending"]
    /\ IdleSteps /\ IdleSize
    /\ movie_name = <<>> /\ year = 0
    /\ IdleMatch /\ IdleRank /\ IdleFind /\ IdleNorm /\ IdleScripts

CallTorrentSize ==
    /\ pc = "torrent_size"
    /\ size' = torrent_size(data)
    /\ pc' = "done"
    /\ UNCHANGED <<titleVars, normVars, scriptVars, matchVars, rankVars, findVars, data, decoded, stack, idx>>

NextSize == CallTorrentSize

SpecSize == InitSize /\ [][NextSize]_vars

-----------------------------------------------------------------------------
(* The three functions called with the year as their callers pass it *)

\* find_matching_torrent as one function: the position in torrent_files of
\* the name returned, 0 for None
first_match(tfs, title, y, m) ==
    IF \E i \in DOMAIN tfs : candidate_matches(tfs, i, title, y, m)
    THEN CHOOSE i \in DOMAIN tfs :
            /\ candidate_matches(tfs, i, title, y, m)
            /\ \A j \in 1..(i - 1) : ~candidate_matches(tfs, j, title, y, m)
    ELSE 0
find_matching_torrent(dir_ok, names, title, y) ==
    IF ~dir_ok THEN 0
    ELSE LET tfs == select_torrents(names)
             exact == first_match(tfs, title, y, 1)
         IN  IF exact # 0 THEN exact ELSE first_match(tfs, title, y, 2)

\* the outcome of a call: the exception it ended with ("none" for a return)
\* and the value returned
Returns(v) == [exc |-> "none", val |-> v]
Raises(e) == [exc |-> e, val |-> 0]

\* title_matches(name, title, year) with year a text: int(year) of line 20
\* raises ValueError for a text that is no integer literal
title_matches_text(name, title, ytext, tolerant) ==
    IF ~int_valid(ytext) THEN Raises("ValueError")
    ELSE Returns(title_matches(name, title, int_value(ytext), tolerant))

\* find_matching_torrent with year a text: title_matches is called for the
\* first candidate, if there is one
find_matching_torrent_text(dir_ok, names, title, ytext) ==
    IF ~dir_ok \/ select_torrents(names) = <<>> THEN Returns(0)
    ELSE IF ~int_valid(ytext) THEN Raises("ValueError")
    ELSE Returns(find_matching_torrent(dir_ok, names, title, int_value(ytext)))

\* rank_results with year a text: title_matches is called (line 140) for the
\* first entry when movie_name is not empty
rank_results_text(rs, title, ytext) ==
    IF title = <<>> \/ rs = <<>> THEN Returns(rank_results(rs, <<>>, 0))
    ELSE IF ~int_valid(ytext) THEN Raises("ValueError")
    ELSE Returns(rank_results(rs, title, int_value(ytext)))

-----------------------------------------------------------------------------
(* SpecCall: one call of title_matches, find_matching_torrent or rank_results *)

\* year texts of the CSV and of the command line, and the default value of
\* the year parameter of rank_results (line 133)
YearTexts == {<<"5">>, <<"6">>, <<"0", "5">>}
DefaultYear == <<>>

CallNames == {<<"a", ".", "5">>, <<"a", ".", "6">>, <<"b", ".", "5">>}
CallEntries ==
    { Entry(RelName(<<"a">>, 5, <<M1080p, Mx265>>), 1),
      Entry(RelName(<<"a">>, 6, <<M720p>>), 2),
      Entry(RelName(<<"b">>, 5, <<M1080p>>), 1) }

InitCall ==
    /\ pc \in {"title_matches", "find_matching_torrent", "rank_results"}
    /\ movie_name \in {<<>>, <<"a">>}
    /\ year = 0
    /\ year_arg \in IF pc = "rank_results" THEN YearTexts \cup {DefaultYear} ELSE YearTexts
    /\ raised = "none"
    /\ IF pc = "title_matches"
       THEN torrent_name \in CallNames /\ fuzzy_year \in BOOLEAN /\ ret = FALSE
       ELSE IdleMatch
    /\ IF pc = "find_matching_torrent"
       THEN /\ isdir \in BOOLEAN
            /\ listing \in IF isdir THEN Listings(MaxFiles) ELSE {<<>>}
            /\ torrent_files = <<>> /\ fuzzy = 1 /\ tf = 1 /\ found = 0
       ELSE IdleFind
    /\ IF pc = "rank_results"
       THEN results \in UNION {[1..n -> CallEntries] : n \in 0..MaxResults} /\ best = 0
       ELSE IdleRank
    /\ IdleDecode /\ IdleNorm /\ IdleBatch /\ IdleUpload

CallTitleMatchesText ==
    /\ pc = "title_matches"
    /\ LET out == title_matches_text(torrent_name, movie_name, year_arg, fuzzy_year)
       IN  raised' = out.exc /\ ret' = IF out.exc = "none" THEN out.val ELSE ret
    /\ pc' = "done"
    /\ UNCHANGED <<titleVars, normVars, year_arg, batchVars, uploadVars, torrent_name, fuzzy_year, rankVars, findVars, decodeVars>>

CallFindMatchingTorrentText ==
    /\ pc = "find_matching_torrent"
    /\ LET out == find_matching_torrent_text(isdir, listing, movie_name, year_arg)
       IN  raised' = out.exc /\ found' = out.val
    /\ torrent_files' = IF isdir THEN select_torrents(listing) ELSE torrent_files
    /\ pc' = "done"
    /\ UNCHANGED <<titleVars, normVars, year_arg, batchVars, uploadVars, matchVars, rankVars, decodeVars, isdir, listing, fuzzy, tf>>

CallRankResultsText ==
    /\ pc = "rank_results"
    /\ LET out == rank_results_text(results, movie_name, year_arg)
       IN  raised' = out.exc /\ best' = out.val
    /\ pc' = "done"
    /\ UNCHANGED <<titleVars, normVars, year_arg, batchVars, uploadVars, matchVars, results, findVars, decodeVars>>

NextCall == CallTitleMatchesText \/ CallFindMatchingTorrentText \/ CallRankResultsText

SpecCall == InitCall /\ [][NextCall]_vars

-----------------------------------------------------------------------------
(* download_all.py: the loop of main, and the exit status of the search script *)

\* the ways the run of search_iptorrents.py for one movie ends: the status
\* search_and_download returns (lines 211-236), an error (sys.exit(1) in
\* load_cookie or download_torrent, or an exception that is not caught), and
\* the interpreter failing to open the script
SearchOutcomes == {"ok", "no results", "no matching torrent", "error", "no script"}

\* what happens to a row of the CSV: a torrent for it is already in the
\* torrents directory (line 36), or the search script is run
RowOutcomes == {"have"} \cup SearchOutcomes

\* result.returncode: main of search_iptorrents.py leaves with sys.exit(1)
\* when the status is not "ok" (lines 285-286) and returns otherwise; an
\* exception ends the interpreter with status 1, and a script that cannot be
\* opened with status 2
returncode(outcome) ==
    IF outcome = "ok" THEN 0
    ELSE IF outcome = "no script" THEN 2
    ELSE 1

\* lines 36-39: a torrent of the movie is on disk
BatchSkip ==
    /\ pc = "download_all"
    /\ pos <= Len(movies)
    /\ movies[pos] = "have"
    /\ skipped' = skipped + 1
    /\ pos' = pos + 1
    /\ UNCHANGED <<pc, titleVars, normVars, callVars, uploadVars, matchVars, rankVars, findVars, decodeVars, movies, downloaded, not_found>>

\* lines 45-53: the search script ends with status 0
BatchDownloaded ==
    /\ pc = "download_all"
    /\ pos <= Len(movies)
    /\ movies[pos] # "have"
    /\ returncode(movies[pos]) = 0
    /\ downloaded' = downloaded + 1
    /\ pos' = pos + 1
    /\ UNCHANGED <<pc, titleVars, normVars, callVars, uploadVars, matchVars, rankVars, findVars, decodeVars, movies, skipped, not_found>>

\* lines 54-57: the search script ends with status 2
BatchNotFound ==
    /\ pc = "download_all"
    /\ pos <= Len(movies)
    /\ movies[pos] # "have"
    /\ returncode(movies[pos]) = 2
    /\ not_found' = Append(not_found, pos)
    /\ pos' = pos + 1
    /\ UNCHANGED <<pc, titleVars, normVars, callVars, uploadVars, matchVars, rankVars, findVars, decodeVars, movies, skipped, downloaded>>

\* lines 58-63: any other status ends the batch with sys.exit(1)
BatchFatal ==
    /\ pc = "download_all"
    /\ pos <= Len(movies)
    /\ movies[pos] # "have"
    /\ returncode(movies[pos]) \notin {0, 2}
    /\ pc' = "exit"
    /\ UNCHANGED <<titleVars, normVars, callVars, uploadVars, matchVars, rankVars, findVars, decodeVars, batchVars>>

\* lines 65-71: the loop is exhausted
BatchDone ==
    /\ pc = "download_all"
    /\ pos > Len(movies)
    /\ pc' = "done"
    /\ UNCHANGED <<titleVars, normVars, callVars, uploadVars, matchVars, rankVars, findVars, decodeVars, batchVars>>

-----------------------------------------------------------------------------
(* SpecBatch: one run of download_all, from the loop of line 32 on *)

InitBatch ==
    /\ pc = "download_all"
    /\ movies \in UNION {[1..n -> RowOutcomes] : n \in 0..MaxMovies}
    /\ pos = 1
    /\ skipped = 0
    /\ downloaded = 0
    /\ not_found = <<>>
    /\ movie_name = <<>> /\ year = 0
    /\ IdleMatch /\ IdleRank /\ IdleFind /\ IdleDecode /\ IdleNorm /\ IdleCall /\ IdleUpload

NextBatch == BatchSkip \/ BatchDownloaded \/ BatchNotFound \/ BatchFatal \/ BatchDone

SpecBatch == InitBatch /\ [][NextBatch]_vars

-----------------------------------------------------------------------------
(* upload_rutorrent.py: the tracker of uploaded files and the loop of main *)

\* os.path.basename(path): the text after the last slash
RECURSIVE basename(_)
basename(path) ==
    IF \A k \in DOMAIN path : path[k] # "/" THEN path
    ELSE basename(Tail(path))

\* load_uploaded: the set of the stripped lines of the file that are not
\* empty; a file that does not exist is read as no lines
load_uploaded(lines) ==
    {strip(lines[k]) : k \in DOMAIN lines} \ {<<>>}

\* mark_uploaded: the file name is appended to the file as a line of its own
mark_uploaded(lines, filename) == Append(lines, filename)

\* a membership test that never finds the name
in_uploaded_never(filename, names) == FALSE

\* line 189: filename in uploaded
in_uploaded(filename, names) == filename \in names

\* a call of upload_torrent and the value it returned ("raise" when it ended
\* with an exception)
Sent(filename, result) == [name |-> filename, result |-> result]

\* lines 170-180: the tracker is loaded; with no file to upload the run ends
\* with sys.exit(0)
UploadNoFiles ==
    /\ pc = "upload_rutorrent"
    /\ upload_files = <<>>
    /\ uploaded' = load_uploaded(tracker)
    /\ pc' = "exit"
    /\ UNCHANGED <<titleVars, normVars, callVars, batchVars, matchVars, rankVars, findVars, decodeVars, tracker, upload_files, fp, sent, uploaded_count, skipped_count, failed_count>>

\* lines 170-184: the tracker is loaded and the loop is entered
UploadLoad ==
    /\ pc = "upload_rutorrent"
    /\ upload_files # <<>>
    /\ uploaded' = load_uploaded(tracker)
    /\ pc' = "loop"
    /\ UNCHANGED <<titleVars, normVars, callVars, batchVars, matchVars, rankVars, findVars, decodeVars, tracker, upload_files, fp, sent, uploaded_count, skipped_count, failed_count>>

\* lines 187-191: the name is in the set; the file is skipped
UploadSkip ==
    /\ pc = "loop"
    /\ fp <= Len(upload_files)
    /\ in_uploaded(basename(upload_files[fp]), uploaded)
    /\ skipped_count' = skipped_count + 1
    /\ fp' = fp + 1
    /\ UNCHANGED <<titleVars, normVars, callVars, batchVars, matchVars, rankVars, findVars, decodeVars, pc, tracker, uploaded, upload_files, sent, uploaded_count, failed_count>>

\* lines 193-199: upload_torrent returns True (line 146)
UploadOk ==
    /\ pc = "loop"
    /\ fp <= Len(upload_files)
    /\ ~in_uploaded(basename(upload_files[fp]), uploaded)
    /\ sent' = Append(sent, Sent(basename(upload_files[fp]), "True"))
    /\ tracker' = mark_uploaded(tracker, basename(upload_files[fp]))
    /\ uploaded' = uploaded \cup {basename(upload_files[fp])}
    /\ uploaded_count' = uploaded_count + 1
    /\ fp' = fp + 1
    /\ UNCHANGED <<titleVars, normVars, callVars, batchVars, matchVars, rankVars, findVars, decodeVars, pc, upload_files, skipped_count, failed_count>>

\* lines 193-201: upload_torrent returns False (lines 147-152)
UploadFailed ==
    /\ pc = "loop"
    /\ fp <= Len(upload_files)
    /\ ~in_uploaded(basename(upload_files[fp]), uploaded)
    /\ sent' = Append(sent, Sent(basename(upload_files[fp]), "False"))
    /\ failed_count' = failed_count + 1
    /\ fp' = fp + 1
    /\ UNCHANGED <<titleVars, normVars, callVars, batchVars, matchVars, rankVars, findVars, decodeVars, pc, tracker, uploaded, upload_files, uploaded_count, skipped_count>>

\* line 195: upload_torrent ends with an exception it does not catch (the
\* open of line 104, or an error of the connection that is no URLError); the
\* exception ends the run
UploadRaised ==
    /\ pc = "loop"
    /\ fp <= Len(upload_files)
    /\ ~in_uploaded(basename(upload_files[fp]), uploaded)
    /\ sent' = Append(sent, Sent(basename(upload_files[fp]), "raise"))
    /\ pc' = "raised"
    /\ UNCHANGED <<titleVars, normVars, callVars, batchVars, matchVars, rankVars, findVars, decodeVars, tracker, uploaded, upload_files, fp, uploaded_count, skipped_count, failed_count>>

\* line 203: the loop is exhausted
UploadDone ==
    /\ pc = "loop"
    /\ fp > Len(upload_files)
    /\ pc' = "done"
    /\ UNCHANGED <<titleVars, normVars, callVars, batchVars, matchVars, rankVars, findVars, decodeVars, uploadVars>>

-----------------------------------------------------------------------------
(* SpecUpload: one run of upload_rutorrent, from the load of line 170 on *)

\* paths of the file list: two paths with the same file name, and another
FilePaths == {<<"a">>, <<"d", "/", "a">>, <<"b">>}

\* lines of the .uploaded file: a name, a name followed by a space, a blank
\* line
TrackerLines == {<<"a">>, <<"b", " ">>, <<>>}

InitUpload ==
    /\ pc = "upload_rutorrent"
    /\ tracker \in UNION {[1..n -> TrackerLines] : n \in 0..MaxLines}
    /\ upload_files \in UNION {[1..n -> FilePaths] : n \in 0..MaxUploads}
    /\ uploaded = {}
    /\ fp = 1
    /\ sent = <<>>
    /\ uploaded_count = 0 /\ skipped_count = 0 /\ failed_count = 0
    /\ movie_name = <<>> /\ year = 0
    /\ IdleMatch /\ IdleRank /\ IdleFind /\ IdleDecode /\ IdleNorm /\ IdleCall /\ IdleBatch

NextUpload ==
    \/ UploadNoFiles \/ UploadLoad \/ UploadSkip \/ UploadOk \/ UploadFailed
    \/ UploadRaised \/ UploadDone

SpecUpload == InitUpload /\ [][NextUpload]_vars

-----------------------------------------------------------------------------
(* Claims about title_matches (SpecMatch) *)

\* the digits pat stand at s[i..] as a token of their own: no letter, digit or
\* underscore touches them on either side
Standalone(s, pat, i) ==
    /\ i >= 1
    /\ i + Len(pat) - 1 <= Len(s)
    /\ SubSeq(s, i, i + Len(pat) - 1) = pat
    /\ (i = 1 \/ ~IsWord(s[i - 1]))
    /\ (i + Len(pat) - 1 = Len(s) \/ ~IsWord(s[i + Len(pat)]))

HasToken(s, pat) == \E i \in 1..Len(s) : Standalone(s, pat, i)

\* the four accepted relations between the release prefix P and the title T
PrefixEqual(P, T) == P = T
PrefixWord(P, T) == startswith(P, T \o <<" ">>)
CompactEqual(P, T) == compact(P) = compact(T)
CompactPrefix(P, T) == startswith(compact(P), compact(T))

\* the text before the leftmost standalone occurrence of the year is accepted
AnchoredAccept(name, title, y) ==
    LET N == _normalize(name)
        T == _normalize(title)
    IN  \E i \in 1..Len(N) :
            /\ Standalone(N, str(y), i)
            /\ \A j \in 1..(i - 1) : ~Standalone(N, str(y), j)
            /\ LET P == strip(SubSeq(N, 1, i - 1))
               IN  PrefixEqual(P, T) \/ PrefixWord(P, T) \/ CompactEqual(P, T)
                       \/ CompactPrefix(P, T)

C6_TolerantSkipsExactYear ==
    (/\ pc = "done" /\ fuzzy_year
     /\ HasToken(_normalize(torrent_name), str(year))
     /\ ~HasToken(_normalize(torrent_name), str(year - 1))
     /\ ~HasToken(_normalize(torrent_name), str(year + 1))) => ~ret

\* C7: a release name formed as the punctuation-perturbed title immediately
\* followed by the year matches in exact mode, for every title.
C7_PerturbedTitleMatches ==
    (pc = "done" /\ ~fuzzy_year /\ IsPerturbedOf(torrent_name, movie_name, year)) => ret

\* C8: a release name formed as the punctuation-perturbed title followed by
\* year Y does not match catalogue year Y+1 in exact mode and does match it in
\* tolerant mode.
C8_OneYearOff ==
    (pc = "done" /\ IsPerturbedOf(torrent_name, movie_name, year - 1)) =>
        (ret <=> fuzzy_year)

\* the years the loop of title_matches tries in the call made
LoopYears == IF fuzzy_year THEN {year, year - 1, year + 1} ELSE {year}

\* the text before the leftmost standalone occurrence of y in the normalized
\* name N (N has such an occurrence)
PrefixBefore(N, y) ==
    strip(SubSeq(N, 1, (CHOOSE i \in 1..Len(N) :
                          /\ Standalone(N, str(y), i)
                          /\ \A j \in 1..(i - 1) : ~Standalone(N, str(y), j)) - 1))

\* the title T ends at a token boundary of the release prefix P: some prefix
\* of P that ends at the end of P or before a space has the space-free form
\* of T
EndsAtBoundary(P, T) ==
    \E k \in 0..Len(P) :
        /\ k = Len(P) \/ P[k + 1] = " "
        /\ compact(SubSeq(P, 1, k)) = compact(T)

\* C24: title_matches is true only when the title ends at a token boundary
\* of the text before the year or equals it in the space-free form; a title
\* that is a character prefix of a longer word (Up against Upgrade.2018.1080p)
\* gives false.
C24_NoCharacterPrefix ==
    (pc = "done" /\ ret /\ _normalize(movie_name) # <<>>) =>
        \E y \in LoopYears :
            /\ HasToken(_normalize(torrent_name), str(y))
            /\ EndsAtBoundary(PrefixBefore(_normalize(torrent_name), y),
                              _normalize(movie_name))

\* C27: for a title that normalizes to the empty string title_matches is
\* false whenever the text before the year token of the candidate is not
\* empty.
C27_EmptyTitle ==
    (/\ pc = "done"
     /\ _normalize(movie_name) = <<>>
     /\ \A y \in LoopYears :
           HasToken(_normalize(torrent_name), str(y))
               => PrefixBefore(_normalize(torrent_name), y) # <<>>) => ~ret

-----------------------------------------------------------------------------
(* Claims about rank_results (SpecRank) *)

NameOf(i) == lower(results[i].name)
SizeOf(i) == results[i].size_bytes

\* the entries that pass the title filter (exact year) and the size filter
Survivors ==
    {i \in DOMAIN results :
        /\ movie_name = <<>> \/ title_matches(results[i].name, movie_name, year, FALSE)
        /\ SizeOf(i) <= MAX_SIZE_BYTES}

Has1080p(i) == contains(NameOf(i), M1080p)
Has720p(i) == contains(NameOf(i), M720p)
HasRes(i) == Has1080p(i) \/ Has720p(i)
HasX265(i) == \E m \in {Mx265, Mh265, Mhdot265, Mhevc} : contains(NameOf(i), m)
HasX264(i) == \E m \in {Mx264, Mh264, Mhdot264} : contains(NameOf(i), m)

\* the six buckets in the claimed order of preference; 1080p wins over 720p
\* and x265 over x264 when a name carries both markers
InRes(i, r) == IF r = 1 THEN Has1080p(i) ELSE Has720p(i) /\ ~Has1080p(i)
InCodec(i, c) ==
    IF c = 1 THEN HasX265(i)
    ELSE IF c = 2 THEN HasX264(i) /\ ~HasX265(i)
    ELSE ~HasX265(i) /\ ~HasX264(i)
BucketOrder == <<<<1, 1>>, <<1, 2>>, <<1, 3>>, <<2, 1>>, <<2, 2>>, <<2, 3>>>>
Bucket(S, r, c) == {i \in S : InRes(i, r) /\ InCodec(i, c)}
Buckets(S) == [k \in DOMAIN BucketOrder |-> Bucket(S, BucketOrder[k][1], BucketOrder[k][2])]

\* i is a smallest (x265, x264) or a largest (other) member of bucket k
BestOf(i, B, k) ==
    /\ i \in B[k]
    /\ IF BucketOrder[k][2] = 3
       THEN \A j \in B[k] : SizeOf(j) <= SizeOf(i)
       ELSE \A j \in B[k] : SizeOf(i) <= SizeOf(j)

\* C1: rank_results returns a smallest entry of the first non-empty bucket in
\* the order 1080p x265, 1080p x264, 1080p other (there a largest entry), then
\* the same three for 720p; any surviving 1080p entry beats every 720p entry.
C1_BucketOrder ==
    pc = "done" =>
        LET S == Survivors
            B == Buckets(S)
        IN  /\ \A k \in DOMAIN BucketOrder :
                  (B[k] # {} /\ \A j \in 1..(k - 1) : B[j] = {}) => BestOf(best, B, k)
            /\ (\E i \in S : Has1080p(i)) => (best # 0 /\ Has1080p(best))

\* a 1080p entry of no known codec is returned although a smaller 720p x265
\* entry survives
C1_Witness ==
    /\ pc = "done" /\ best # 0
    /\ best \in Bucket(Survivors, 1, 3)
    /\ \E i \in Bucket(Survivors, 2, 1) : SizeOf(i) < SizeOf(best)

C3_SizeCeiling ==
    pc = "done" =>
        LET S == Survivors
        IN  /\ best # 0 => SizeOf(best) <= MAX_SIZE_BYTES
            /\ (\E i \in S : SizeOf(i) = MAX_SIZE_BYTES /\ HasRes(i)) => best # 0
            /\ (Len(results) = 1 /\ S = {1} /\ HasRes(1)) => best = 1

\* the entry returned has exactly the ceiling's size, and a larger entry of
\* the same name was dropped
C3_Witness ==
    /\ pc = "done" /\ best # 0
    /\ SizeOf(best) = MAX_SIZE_BYTES
    /\ \E i \in DOMAIN results :
          SizeOf(i) > MAX_SIZE_BYTES /\ results[i].name = results[best].name

\* C4: with a non-empty title every entry returned matches the title in
\* exact-year mode; with an empty title the title filter is skipped, so an
\* entry is returned whenever some entry under the ceiling carries a
\* resolution marker.
C4_TitleFilter ==
    pc = "done" =>
        /\ (movie_name # <<>> /\ best # 0)
              => title_matches(results[best].name, movie_name, year, FALSE)
        /\ movie_name = <<>> =>
              (best # 0 <=> \E i \in DOMAIN results :
                               SizeOf(i) <= MAX_SIZE_BYTES /\ HasRes(i))

\* an entry is returned although the list holds a 1080p x265 entry of the
\* movie dated one year off, which matches in tolerant mode only
C4_Witness ==
    /\ pc = "done" /\ movie_name # <<>> /\ best # 0
    /\ \E i \in DOMAIN results :
          /\ title_matches(results[i].name, movie_name, year, TRUE)
          /\ ~title_matches(results[i].name, movie_name, year, FALSE)
          /\ Has1080p(i) /\ HasX265(i)
          /\ ~(Has1080p(best) /\ HasX265(best))

\* C26: among the entries of the winning bucket that share the smallest size
\* (x265 and x264 buckets) or the largest size (other bucket), rank_results
\* returns the one that comes first in the input list, and it returns one entry.
C26_EarliestOfTies ==
    pc = "done" =>
        LET S == Survivors
            B == Buckets(S)
        IN  \A k \in DOMAIN BucketOrder :
                (B[k] # {} /\ \A j \in 1..(k - 1) : B[j] = {}) =>
                    /\ best \in DOMAIN results
                    /\ BestOf(best, B, k)
                    /\ \A j \in B[k] : SizeOf(j) = SizeOf(best) => best <= j

\* two different releases of the winning x265 or x264 bucket have the same
\* smallest size and the first of them is returned
C26_Witness ==
    /\ pc = "done" /\ best = 1 /\ Len(results) = 2
    /\ results[1].name # results[2].name
    /\ SizeOf(1) = SizeOf(2)
    /\ \E k \in DOMAIN BucketOrder :
          BucketOrder[k][2] # 3 /\ Buckets(Survivors)[k] = {1, 2}

-----------------------------------------------------------------------------
(* Claims about the classification of rank_results (SpecClassify) *)

\* the buckets of the call that hold position i
BucketsOf(i) ==
    LET cl == classify(results, movie_name, year)
    IN  {b \in {M1080p, M720p} \X {"x265", "x264", "other"} :
            \E k \in DOMAIN bucket(cl, b[1], b[2]) : bucket(cl, b[1], b[2])[k] = i}

\* C23: every surviving entry enters at most one bucket; a name with both
\* 1080p and 720p is filed under 1080p only, a name matching both codec
\* patterns under x265 only, and markers are recognised in any letter case.
C23_Precedence ==
    pc = "done" =>
        /\ \A i \in DOMAIN results :
              /\ Cardinality(BucketsOf(i)) <= 1
              /\ (i \in Survivors /\ HasRes(i)) =>
                    BucketsOf(i) =
                        {<<IF Has1080p(i) THEN M1080p ELSE M720p,
                           IF HasX265(i) THEN "x265"
                           ELSE IF HasX264(i) THEN "x264" ELSE "other">>}
        /\ (\E i \in Survivors : Has1080p(i)) => (best # 0 /\ Has1080p(best))
        /\ (\E i \in Survivors : Has1080p(i) /\ HasX265(i))
              => (best # 0 /\ Has1080p(best) /\ HasX265(best))

\* a release with upper-case markers is returned ahead of a release whose
\* name carries both resolutions and both codecs
C23_Witness ==
    /\ pc = "done" /\ best # 0
    /\ results[best].name # NameOf(best)
    /\ \E i \in Survivors :
          /\ i # best
          /\ Has1080p(i) /\ Has720p(i) /\ HasX265(i) /\ HasX264(i)
          /\ BucketsOf(i) = BucketsOf(best)

-----------------------------------------------------------------------------
(* Claims about find_matching_torrent (SpecFind) *)

\* the candidates: the names of the listing with the .torrent suffix, cut off
Stem(i) == removesuffix(torrent_files[i], DotTorrent)
ExactAt(i) == title_matches(Stem(i), movie_name, year, FALSE)
TolerantAt(i) == title_matches(Stem(i), movie_name, year, TRUE)
ExactHits == {i \in DOMAIN torrent_files : ExactAt(i)}
TolerantHits == {i \in DOMAIN torrent_files : TolerantAt(i)}
Least(S) == CHOOSE i \in S : \A j \in S : i <= j

\* C9: find_matching_torrent returns the first candidate, in listing order,
\* that matches in exact mode, even when an earlier candidate matches in
\* tolerant mode; the tolerant pass runs only once no candidate matches in
\* exact mode, and then returns the first tolerant match; with no match in
\* either pass it returns None.
C9_ExactPassFirst ==
    /\ (pc = "scan" /\ fuzzy = 2) => ExactHits = {}
    /\ (pc = "scan" /\ fuzzy = 1) => \A i \in 1..(tf - 1) : ~ExactAt(i)
    /\ pc = "done" =>
          found = (IF ~isdir THEN 0
                   ELSE IF ExactHits # {} THEN Least(ExactHits)
                   ELSE IF TolerantHits # {} THEN Least(TolerantHits)
                   ELSE 0)

\* an exact match is returned from behind a candidate that matches in
\* tolerant mode only
C9_Witness ==
    /\ pc = "done" /\ found # 0
    /\ ExactAt(found)
    /\ \E i \in 1..(found - 1) : TolerantAt(i) /\ ~ExactAt(i)

-----------------------------------------------------------------------------
(* Claims about bdecode (SpecDecode) *)

IsContainer(val) == val.t \in {"list", "dict"}

\* C10: a buffer holding an unterminated container or a key without a value
\* (d3:foo, l4:spam, d, l) ends in an error; a list or dictionary is returned
\* only when its closing e stands in the buffer, and every proper prefix of
\* the bytes it was decoded from ends in an error, so no list or dictionary is
\* ever built from the elements decoded before the buffer ran out.
C10_NoPartialContainer ==
    pc = "done" =>
        /\ data \in Unterminated => decoded.exc # "none"
        /\ (decoded.exc = "none" /\ IsContainer(decoded.val)) =>
              /\ decoded.idx <= Len(data)
              /\ data[decoded.idx] = "e"
              /\ \A m \in 1..(decoded.idx - 1) :
                    bdecode(SubSeq(data, 1, m), 0).exc # "none"

\* d3:foo has been decoded: the key foo was read, the value is missing, and
\* the call raised
C10_Witness ==
    /\ pc = "done"
    /\ data = <<"d", "3", ":", "f", "o", "o">>
    /\ decoded.exc = "ValueError"

\* the byte strings the claims name
T10abc == <<"1", "0", ":", "a", "b", "c">>
Ti0e == <<"i", "0", "e">>
Tim42e == <<"i", "-", "4", "2", "e">>
Ti042e == <<"i", "0", "4", "2", "e">>
Ti00e == <<"i", "0", "0", "e">>
Tim0e == <<"i", "-", "0", "e">>
Tdi1ei2ee == <<"d", "i", "1", "e", "i", "2", "e", "e">>
Ti42e == <<"i", "4", "2", "e">>
T4spam == <<"4", ":", "s", "p", "a", "m">>
Tl4spami42ee == <<"l", "4", ":", "s", "p", "a", "m", "i", "4", "2", "e", "e">>
Td3bar4spam3fooi42ee == <<"d", "3", ":", "b", "a", "r", "4", ":", "s", "p", "a", "m", "3", ":", "f", "o", "o", "i", "4", "2", "e", "e">>
Tspam == <<"s", "p", "a", "m">>
Tbar == <<"b", "a", "r">>
Tfoo == <<"f", "o", "o">>
Tinfo == <<"i", "n", "f", "o">>
Tlength == <<"l", "e", "n", "g", "t", "h">>
Tfiles == <<"f", "i", "l", "e", "s">>

\* the length a top-level byte string declares: the digits before its colon
DeclaredLength(b) == int_value(slice(b, 0, index(b, ":", 0)))

\* C12: a byte string that declares more bytes than the buffer holds after its
\* colon (10:abc) ends in an error; no byte string is returned shorter than the
\* length it declares, and no offset beyond the end of the buffer is returned.
C12_LengthWithinBuffer ==
    pc = "done" =>
        /\ data = T10abc => decoded.exc # "none"
        /\ decoded.exc = "none" => decoded.idx <= Len(data)
        /\ (decoded.exc = "none" /\ decoded.val.t = "bytes")
              => Len(decoded.val.v) = DeclaredLength(data)

\* the text between the i and the e of a top-level integer
IntText(b, r) == slice(b, 1, r.idx - 1)

\* C13: i0e decodes to 0 and i-42e to -42; an integer with a leading zero
\* (i042e, i00e) or a negative zero (i-0e) ends in an error, so the digits of
\* every integer returned are the canonical decimal form of its value.
C13_IntegerGrammar ==
    pc = "done" =>
        /\ data = Ti0e => decoded = Return(BInt(0), 3)
        /\ data = Tim42e => decoded = Return(BInt(-42), 5)
        /\ data \in {Ti042e, Ti00e, Tim0e} => decoded.exc # "none"
        /\ (decoded.exc = "none" /\ decoded.val.t = "int")
              => IntText(data, decoded) = str(decoded.val.v)

\* every key of every dictionary in val is text
RECURSIVE KeysAreText(_)
KeysAreText(val) ==
    IF val.t = "dict"
    THEN \A k \in DOMAIN val.v : val.v[k][1].t = "str" /\ KeysAreText(val.v[k][2])
    ELSE IF val.t = "list" THEN \A k \in DOMAIN val.v : KeysAreText(val.v[k])
    ELSE TRUE

\* C14: a dictionary with a value that is no byte string in a key position
\* (di1ei2ee) ends in an error, and every key of every dictionary returned is
\* text.
C14_TextKeys ==
    pc = "done" =>
        /\ data = Tdi1ei2ee => decoded.exc # "none"
        /\ decoded.exc = "none" => KeysAreText(decoded.val)

\* C16: when a prefix of the buffer is one complete value on its own (it
\* decodes to a value with the next offset at its end), the whole buffer
\* decodes to the same value and the same offset: the bytes after it cause no
\* error and change nothing.
C16_OneValue ==
    pc = "done" =>
        \A m \in 1..Len(data) :
            LET r == bdecode(SubSeq(data, 1, m), 0)
            IN  (r.exc = "none" /\ r.idx = m) => decoded = r

\* the list l4:spami42ee was decoded from a buffer that goes on with i0e
C16_Witness ==
    /\ pc = "done"
    /\ data = Tl4spami42ee \o Ti0e
    /\ decoded.exc = "none"
    /\ decoded.idx = Len(Tl4spami42ee)

\* a key exposed as text
Text(b) == [t |-> "str", v |-> b]

\* C17: i42e decodes to the integer 42, 4:spam to the byte string spam,
\* l4:spami42ee to the list of spam and 42 in that order, and
\* d3:bar4:spam3:fooi42ee to the dictionary of the text keys bar and foo with
\* the values spam and 42.
C17_Fixtures ==
    pc = "done" =>
        /\ data = Ti42e => decoded = Return(BInt(42), 4)
        /\ data = T4spam => decoded = Return(BBytes(Tspam), 6)
        /\ data = Tl4spami42ee =>
              decoded = Return(BList(<<BBytes(Tspam), BInt(42)>>), 12)
        /\ data = Td3bar4spam3fooi42ee =>
              decoded = Return(BDict(<< <<Text(Tbar), BBytes(Tspam)>>,
                                        <<Text(Tfoo), BInt(42)>> >>), 22)

\* the dictionary fixture has been decoded to a dictionary of two entries
C17_Witness ==
    /\ pc = "done"
    /\ data = Td3bar4spam3fooi42ee
    /\ decoded.exc = "none"
    /\ decoded.val.t = "dict"
    /\ Len(decoded.val.v) = 2

-----------------------------------------------------------------------------
(* Claims about the steps of bdecode (SpecSteps) *)

\* the step-by-step call ends in what bdecode(data, 0) evaluates to
StepsAgree == pc = "done" => decoded = bdecode(data, 0)

\* C11: every step of bdecode that does not raise moves the offset forward, a
\* value is returned with an offset greater than the one its call started at,
\* and every call on a finite buffer ends, with a value or with an error.
C11_Terminates ==
    /\ [][(pc = "step" /\ decoded'.exc \in {"pending", "none"}) => idx' > idx]_vars
    /\ [](pc = "done" => decoded.exc \in {"none", "ValueError", "TypeError"})
    /\ <>(pc = "done")

\* a call on a malformed buffer has ended in an error after its loop ran: a
\* list of an integer and an inner list, cut short
C11_Witness ==
    /\ pc = "done"
    /\ data = <<"l", "i", "1", "e", "l">>
    /\ decoded.exc = "ValueError"

\* C15: lists and dictionaries nested deeper than 1000 end in the ValueError
\* of malformed input, so that no more than 1000 calls of bdecode are ever
\* inside one another; input nested 1000 deep or less is decoded.
C15_DepthCeiling ==
    /\ Len(stack) <= 1000
    /\ pc = "done" =>
          /\ data = Nested(1001) => decoded.exc = "ValueError"
          /\ data = Nested(1000) => decoded.exc = "none"

-----------------------------------------------------------------------------
(* Claims about torrent_size (SpecSize) *)

\* the total of a list of file lengths
RECURSIVE Total(_)
Total(fl) == IF fl = <<>> THEN 0 ELSE Head(fl) + Total(Tail(fl))

\* C18: torrent_size returns info.length when info has a length, also when
\* info has files too, and otherwise the sum of the lengths of the entries of
\* info.files: {info: {length: 1000}} gives 1000 and
\* {info: {files: [{length: 300}, {length: 700}]}} gives 1000.
C18_SizeOfTorrent ==
    pc = "done" =>
        /\ data = Torrent(<<1000>>, <<>>) => size = BInt(1000)
        /\ data = Torrent(<<>>, << <<300, 700>> >>) => size = BInt(1000)
        /\ \A lo \in LengthOptions, fo \in FilesOptions :
              data = Torrent(lo, fo) =>
                  /\ lo # <<>> => size = BInt(lo[1])
                  /\ (lo = <<>> /\ fo # <<>>) => size = BInt(Total(fo[1]))

\* the length 5 was returned for a torrent whose files add up to 1000
C18_Witness ==
    /\ pc = "done"
    /\ data = Torrent(<<5>>, << <<300, 700>> >>)
    /\ size = BInt(5)

\* the file's content decodes to a dictionary whose info (an empty dictionary
\* when there is none) is a dictionary with neither length nor files
MissingSize(b) ==
    /\ startswith(b, <<"d">>)
    /\ LET r == bdecode(b, 0)
       IN  /\ r.exc = "none"
           /\ \A k \in DOMAIN r.val.v :
                 r.val.v[k][1] = Text(Tinfo) =>
                     /\ r.val.v[k][2].t = "dict"
                     /\ \A j \in DOMAIN r.val.v[k][2].v :
                           r.val.v[k][2].v[j][1] \notin {Text(Tlength), Text(Tfiles)}

\* the file's content cannot be decoded
Undecodable(b) == bdecode(b, 0).exc # "none"

-----------------------------------------------------------------------------
(* Claims about _normalize (SpecNorm) *)

\* s with any of its letters among cs turned to upper case
RECURSIVE UpperCased(_, _)
UpperCased(s, cs) ==
    IF s = <<>> THEN {<<>>}
    ELSE {<<c>> \o rest :
            c \in (IF Head(s) \in cs THEN {Head(s), UpperChar(Head(s))} ELSE {Head(s)}),
            rest \in UpperCased(Tail(s), cs)}

\* the letters that have an upper case: a to z and the dotless i
Letters == LowerSet \cup {DotlessI}

\* runs of whitespace
WsRuns == {<<" ">>, <<"\t">>, <<"\t", " ">>}

\* s with every run of whitespace replaced by a run of whitespace
RECURSIVE Respaced(_)
Respaced(s) ==
    IF s = <<>> THEN {<<>>}
    ELSE IF IsSpace(Head(s)) THEN {r \o rest : r \in WsRuns, rest \in Respaced(lstrip(s))}
    ELSE {<<Head(s)>> \o rest : rest \in Respaced(Tail(s))}

\* s with whitespace added in front and behind
Padded(s) == {l \o s \o r : l \in WsRuns \cup {<<>>}, r \in WsRuns \cup {<<>>}}

\* normalizing the result again changes nothing, and neither respacing nor
\* padding the argument changes the result
IdempotentAndSpaceBlind ==
    /\ _normalize(normalized) = normalized
    /\ \A w \in Respaced(text) : _normalize(w) = normalized
    /\ \A w \in Padded(text) : _normalize(w) = normalized

\* C20: _normalize(_normalize(s)) = _normalize(s); s with any letters
\* upper-cased normalizes to the same result; and so does s with any run of
\* whitespace replaced by another, or with whitespace added in front or behind.
C20_Invariance ==
    pc = "done" =>
        /\ IdempotentAndSpaceBlind
        /\ \A u \in UpperCased(text, Letters) : _normalize(u) = normalized

\* C20 as amended: the same, with upper-casing limited to the letters a to z.
C20_AsciiCase ==
    pc = "done" =>
        /\ IdempotentAndSpaceBlind
        /\ \A u \in UpperCased(text, LowerSet) : _normalize(u) = normalized

\* an argument with a letter of each case around a tab has been normalized:
\* it has an upper-cased form and respaced forms other than itself
C20_Witness ==
    /\ pc = "done"
    /\ text = <<"a", "\t", "I">>
    /\ normalized = <<"a", " ", "i">>
    /\ <<"A", "\t", "I">> \in UpperCased(text, LowerSet)
    /\ <<"a", "\t", " ", "I">> \in Respaced(text)

\* the characters _normalize is said to leave: lower-case letters, digits and
\* the space
Plain == LowerSet \cup {DotlessI} \cup DigitSet \cup {" "}

\* C21: the result of _normalize holds only lower-case letters, digits and
\* single spaces, with no space in front or behind; the underscore too is
\* replaced by a space, so that Movie_Title and Movie.Title normalize alike.
C21_PlainOutput ==
    pc = "done" =>
        /\ \A k \in DOMAIN normalized : normalized[k] \in Plain
        /\ normalized # <<>> => (normalized[1] # " " /\ normalized[Len(normalized)] # " ")
        /\ \A k \in 1..(Len(normalized) - 1) :
              ~(normalized[k] = " " /\ normalized[k + 1] = " ")
        /\ _normalize(MovieUnderscoreTitle) = _normalize(MovieDotTitle)

-----------------------------------------------------------------------------
(* Claims about calls with the year as text (SpecCall) *)

\* C22: title_matches, find_matching_torrent and rank_results end with a
\* return value for every accepted name, title and year, never with an
\* exception, also when rank_results is called with a title and the default
\* value of its year parameter.
C22_NoException ==
    pc = "done" => raised = "none"

-----------------------------------------------------------------------------
(* Claims about the loop of download_all (SpecBatch) *)

\* the search run of the movie ends because no torrent was found for it
NoTorrentFound(i) == movies[i] \in {"no results", "no matching torrent"}

\* C25: a movie whose search ends with no results, or with no result passing
\* the ranker, is put on the not-found list and the loop goes on to the next
\* movie; the batch is aborted only for other failures.
C25_NotFoundContinues ==
    /\ pc = "exit" => ~NoTorrentFound(pos)
    /\ \A i \in 1..(pos - 1) :
          NoTorrentFound(i) => \E k \in DOMAIN not_found : not_found[k] = i

-----------------------------------------------------------------------------
(* Claims about the loop of upload_rutorrent (SpecUpload) *)

\* the file name the loop is at, <<>> when the list is exhausted
CurrentName == IF fp <= Len(upload_files) THEN basename(upload_files[fp]) ELSE <<>>

\* one step of the loop obeys the tracker rules: the tracker (file and set)
\* changes only by the name of an upload that has just returned True, a name
\* in the set is skipped with no call of upload_torrent, and a call that did
\* not return True changes neither file nor set
TrackerStep ==
    pc = "loop" =>
        /\ (tracker' # tracker \/ uploaded' # uploaded) =>
              /\ sent' = Append(sent, Sent(CurrentName, "True"))
              /\ tracker' = Append(tracker, CurrentName)
              /\ uploaded' = uploaded \cup {CurrentName}
        /\ CurrentName \in uploaded => (sent' = sent /\ tracker' = tracker)
        /\ (sent' # sent /\ sent'[Len(sent')].result # "True") =>
              (tracker' = tracker /\ uploaded' = uploaded)

\* no file name has two calls of upload_torrent that returned True, and none
\* that was in the tracker at the start has any call
UploadedOnce ==
    /\ \A i, j \in DOMAIN sent :
          (i < j /\ sent[i].result = "True" /\ sent[j].result = "True")
              => sent[i].name # sent[j].name
    /\ \A i \in DOMAIN sent :
          \A k \in 1..(Len(tracker) - uploaded_count) : strip(tracker[k]) # sent[i].name

\* C28: in the loop of upload_rutorrent a file name enters the tracker (file
\* and set) only after its upload returned success, a name already in the
\* tracker is skipped without an upload attempt, a failed upload leaves the
\* tracker unchanged, and no file name is uploaded successfully twice in a run.
C28_TrackerAfterSuccess ==
    [][TrackerStep]_vars /\ []UploadedOnce

\* a run in which a file name that occurs under two paths was uploaded once
\* and skipped once, and another upload failed and stayed out of the tracker
C28_Witness ==
    /\ pc = "done"
    /\ \E i, j \in DOMAIN upload_files :
          /\ i < j /\ upload_files[i] # upload_files[j]
          /\ basename(upload_files[i]) = basename(upload_files[j])
          /\ \E k \in DOMAIN sent : sent[k] = Sent(basename(upload_files[i]), "True")
    /\ skipped_count = 1 /\ uploaded_count = 1 /\ failed_count = 1
    /\ \E k \in DOMAIN sent : sent[k].result = "False" /\ sent[k].name \notin uploaded

=============================================================================
